---- MODULE Spec2Model ----
(***************************************************************************)
(* The query-submission lifecycle of the legal document search portal:     *)
(* the App component of frontend/src/App.jsx.  The state is the four       *)
(* useState cells (query, response, loading, error) together with the      *)
(* suspended invocations of the async handler handleSearch.  One action    *)
(* per DOM event handler and one per resumption of a suspended handler.    *)
(*                                                                         *)
(* A JavaScript value that may be null is modelled as a sequence of length *)
(* at most one: None is null, Some(v) is the value v.  A text is a         *)
(* sequence of characters, so that trim() is computed and not assumed.     *)
(* The state updates of one handler run (or of one resumption) are applied *)
(* as one step: React batches the setState calls of a handler and renders  *)
(* once, before the next event is delivered.                               *)
(***************************************************************************)
EXTENDS Integers, Sequences, FiniteSets, TLC

VARIABLES query, response, loading, error, inflight, issued, event

vars == <<query, response, loading, error, inflight, issued, event>>

----------------------------------------------------------------------------
(* Bounds of the model *)

\* longest text the user types into the query input
MaxLen == 3
\* number of POST /generate requests issued in one behaviour
MaxRequests == 2

----------------------------------------------------------------------------
(* Values *)

None == <<>>
Some(v) == <<v>>

\* white space removed by String.prototype.trim (two representatives)
White == {" ", "\t"}
\* characters the user can type
Chars == White \cup {"a"}

Texts == UNION {[1..n -> Chars] : n \in 0..MaxLen}

RECURSIVE TrimStart(_)
TrimStart(s) ==
    IF s = <<>> THEN s
    ELSE IF Head(s) \in White THEN TrimStart(Tail(s)) ELSE s

RECURSIVE TrimEnd(_)
TrimEnd(s) ==
    IF s = <<>> THEN s
    ELSE IF s[Len(s)] \in White THEN TrimEnd(SubSeq(s, 1, Len(s) - 1)) ELSE s

\* query.trim()
Trim(s) == TrimEnd(TrimStart(s))

\* keys delivered to onKeyPress of the query input
Keys == {"Enter", "a"}

\* HTTP status codes the backend may answer with
Statuses == {200, 404, 500}

\* err.message of a rejected fetch() or res.json(); "" is an error without message
Messages == {"Failed to fetch", "Unexpected token < in JSON", ""}

Doc1 == [doc_id |-> "D1", title |-> "Contract Basics", excerpt |-> "...", relevance_score |-> 92]
Doc2 == [doc_id |-> "D2", title |-> "Tort Law", excerpt |-> "...", relevance_score |-> 80]

\* decoded JSON bodies: objects {summary, relevant_docs}
Bodies ==
    { [summary |-> "S", relevant_docs |-> <<>>],
      [summary |-> "Contracts require offer, acceptance, consideration.",
       relevant_docs |-> <<Doc1>>],
      [summary |-> "S", relevant_docs |-> <<Doc1, Doc2>>],
      [summary |-> "S", relevant_docs |-> <<Doc2, Doc1>>] }

\* what res.json() can resolve with: an object, or the JSON value null
JsonValues == {Some(b) : b \in Bodies} \cup {None}

----------------------------------------------------------------------------
(* Pieces of handleSearch *)

ValidationMessage == "Please enter a search query"

FallbackMessage == "Failed to fetch response. Please ensure the backend is running."

\* the mutant: only the empty text is rejected
IsBlank_noTrim(q) == q = <<>>
\* !query.trim()
IsBlank(q) == Trim(q) = <<>>

\* the mutant: the text is sent as typed
RequestBody_raw(q) == [query |-> q]
\* { query: query.trim() }
RequestBody(q) == [query |-> Trim(q)]

\* res.ok
Ok(status) == status >= 200 /\ status <= 299

\* the mutant: a message without the status code
HttpErrorMessage_noStatus(status) == "HTTP error! status: "
\* `HTTP error! status: ${res.status}`
HttpErrorMessage(status) == "HTTP error! status: " \o ToString(status)

\* err.message || "Failed to fetch response. ..."
CatchMessage(message) == IF message # "" THEN message ELSE FallbackMessage

\* the mutant: only the summary is kept
ResponseOf_dropDocs(data) ==
    IF data = None THEN None ELSE Some([data[1] EXCEPT !.relevant_docs = <<>>])
\* setResponse(data)
ResponseOf(data) == data

\* the mutant: the controls stay enabled during a search
Disabled_never == FALSE
\* disabled={loading} of the input and of the button
Disabled == loading

----------------------------------------------------------------------------
(* Initial state: the useState initial values, nothing in flight *)

Init ==
    /\ query = <<>>
    /\ response = None
    /\ loading = FALSE
    /\ error = None
    /\ inflight = {}
    /\ issued = 0
    /\ event = [type |-> "mount"]

----------------------------------------------------------------------------
(* Event handlers *)

\* the mutant: the previous response is not cleared
HandleSearch_keepResponse(ev) ==
    /\ event' = ev
    /\ IF IsBlank(query)
       THEN /\ error' = Some(ValidationMessage)
            /\ UNCHANGED <<query, response, loading, inflight, issued>>
       ELSE /\ issued < MaxRequests
            /\ loading' = TRUE
            /\ error' = None
            /\ issued' = issued + 1
            /\ inflight' = inflight \cup
                   {[id |-> issued + 1, body |-> RequestBody(query), pc |-> "fetch"]}
            /\ UNCHANGED <<query, response>>

\* handleSearch up to its first await
HandleSearch(ev) ==
    /\ event' = ev
    /\ IF IsBlank(query)
       THEN /\ error' = Some(ValidationMessage)
            /\ UNCHANGED <<query, response, loading, inflight, issued>>
       ELSE /\ issued < MaxRequests
            /\ loading' = TRUE
            /\ error' = None
            /\ response' = None
            /\ issued' = issued + 1
            /\ inflight' = inflight \cup
                   {[id |-> issued + 1, body |-> RequestBody(query), pc |-> "fetch"]}
            /\ UNCHANGED query

\* onChange of the query input
SetQuery(v) ==
    /\ ~Disabled
    /\ query' = v
    /\ event' = [type |-> "change", value |-> v]
    /\ UNCHANGED <<response, loading, error, inflight, issued>>

\* onClick of the search button
ClickSearch ==
    /\ ~Disabled
    /\ HandleSearch([type |-> "click"])

\* handleKeyPress, the onKeyPress of the query input
HandleKeyPress(key) ==
    /\ ~Disabled
    /\ IF key = "Enter" /\ ~loading
       THEN HandleSearch([type |-> "keypress", key |-> key])
       ELSE /\ event' = [type |-> "keypress", key |-> key]
            /\ UNCHANGED <<query, response, loading, error, inflight, issued>>

----------------------------------------------------------------------------
(* Resumptions of a suspended handleSearch *)

\* catch (err) { setError(...) } finally { setLoading(false) }
CatchFinally(call, message) ==
    /\ error' = Some(CatchMessage(message))
    /\ loading' = FALSE
    /\ inflight' = inflight \ {call}
    /\ UNCHANGED <<query, response, issued>>

\* fetch() rejects: no response reachable
FetchRejects(call, message) ==
    /\ call \in inflight
    /\ call.pc = "fetch"
    /\ event' = [type |-> "rejected", id |-> call.id, message |-> message]
    /\ CatchFinally(call, message)

\* fetch() resolves with a response of the given status
FetchResponds(call, status) ==
    /\ call \in inflight
    /\ call.pc = "fetch"
    /\ event' = [type |-> "response", id |-> call.id, status |-> status]
    /\ IF ~Ok(status)
       THEN CatchFinally(call, HttpErrorMessage(status))
       ELSE /\ inflight' = (inflight \ {call}) \cup {[call EXCEPT !.pc = "json"]}
            /\ UNCHANGED <<query, response, loading, error, issued>>

\* res.json() resolves with the decoded body
JsonResolves(call, data) ==
    /\ call \in inflight
    /\ call.pc = "json"
    /\ event' = [type |-> "json", id |-> call.id, data |-> data]
    /\ response' = ResponseOf(data)
    /\ loading' = FALSE
    /\ inflight' = inflight \ {call}
    /\ UNCHANGED <<query, error, issued>>

\* the mutant: setLoading(false) at the end of the try block, no finally
JsonRejects_noFinally(call, message) ==
    /\ call \in inflight
    /\ call.pc = "json"
    /\ event' = [type |-> "jsonerror", id |-> call.id, message |-> message]
    /\ error' = Some(CatchMessage(message))
    /\ inflight' = inflight \ {call}
    /\ UNCHANGED <<query, response, issued, loading>>

\* res.json() rejects: the body is not decodable
JsonRejects(call, message) ==
    /\ call \in inflight
    /\ call.pc = "json"
    /\ event' = [type |-> "jsonerror", id |-> call.id, message |-> message]
    /\ CatchFinally(call, message)

----------------------------------------------------------------------------

UserStep ==
    \/ \E v \in Texts : SetQuery(v)
    \/ ClickSearch
    \/ \E key \in Keys : HandleKeyPress(key)

ResolveStep ==
    \/ \E call \in inflight, m \in Messages : FetchRejects(call, m)
    \/ \E call \in inflight, s \in Statuses : FetchResponds(call, s)
    \/ \E call \in inflight, d \in JsonValues : JsonResolves(call, d)
    \/ \E call \in inflight, m \in Messages : JsonRejects(call, m)

Next == UserStep \/ ResolveStep

Spec == Init /\ [][Next]_vars

----------------------------------------------------------------------------
(* Vocabulary of the properties *)

\* the text holds no character other than white space
Blank(q) == \A i \in 1..Len(q) : q[i] \in White

\* t is q without its leading and trailing white space
IsTrimOf(t, q) ==
    \E i \in 1..Len(q), j \in 1..Len(q) :
        /\ i <= j
        /\ t = SubSeq(q, i, j)
        /\ q[i] \notin White
        /\ q[j] \notin White
        /\ \A k \in 1..Len(q) : (k < i \/ k > j) => q[k] \in White

\* the event is a call of handleSearch: a click, or Enter in the input
IsSubmit(ev) ==
    \/ ev.type = "click"
    \/ ev.type = "keypress" /\ ev.key = "Enter"

\* the event is a response with a status outside 200..299
IsHttpFailure(ev) == ev.type = "response" /\ ev.status \notin 200..299

\* the event ends a submission
IsResolution(ev) ==
    \/ ev.type \in {"rejected", "json", "jsonerror"}
    \/ IsHttpFailure(ev)

\* the event belongs to the network, not to the user
IsNetwork(ev) == ev.type \in {"rejected", "response", "json", "jsonerror"}

\* the message the user reads for a status, written out
StatusText(status) ==
    CASE status = 404 -> "HTTP error! status: 404"
      [] status = 500 -> "HTTP error! status: 500"
      [] OTHER -> "HTTP error! status: ?"

Idle == ~loading /\ response = None /\ error = None
Loading == loading
Success == response # None
Error == error # None

BoolToNat(b) == IF b THEN 1 ELSE 0

----------------------------------------------------------------------------
(* Properties *)

\* C1: a submit whose query is empty or only white space sets the error to
\* exactly "Please enter a search query" and issues no request: the number of
\* requests issued and the requests in flight are the same before and after.
C1_BlankSubmitRejected ==
    [][ (IsSubmit(event') /\ Blank(query)) =>
            /\ error' = Some("Please enter a search query")
            /\ issued' = issued
            /\ inflight' = inflight ]_vars

\* a white-space query was submitted after an earlier request, and rejected
C1_Witness ==
    /\ IsSubmit(event)
    /\ query # <<>>
    /\ Blank(query)
    /\ error = Some("Please enter a search query")
    /\ issued = 1
    /\ inflight = {}

\* C2 (as claimed): in every reachable state exactly one of Idle, Loading,
\* Success and Error holds, so no two of "loading", "response is non-null" and
\* "error is non-null" are true together.
C2_ExactlyOneLifecycleState ==
    BoolToNat(Idle) + BoolToNat(Loading) + BoolToNat(Success) + BoolToNat(Error) = 1

\* C3: at most one request is issued and unresolved at any time.
C3_AtMostOneInFlight == Cardinality(inflight) <= 1

\* the second request of a behaviour is the only one in flight
C3_Witness == loading /\ issued = 2 /\ Cardinality(inflight) = 1

\* C4: in every reachable state where loading is true, response is null and
\* error is null: nothing of an earlier submission is shown during a search.
C4_NoStaleResultWhileLoading == loading => (response = None /\ error = None)

\* a search is running that was submitted after an earlier one had resolved
C4_Witness ==
    /\ loading
    /\ IsSubmit(event)
    /\ issued = 2
    /\ response = None
    /\ error = None

\* C5: a submit whose trimmed query is not empty issues exactly one request,
\* and the query field of its body is the query without its leading and
\* trailing white space.
C5_OneRequestWithTrimmedQuery ==
    [][ (IsSubmit(event') /\ ~Blank(query)) =>
            /\ issued' = issued + 1
            /\ \E call \in inflight' :
                  /\ call \notin inflight
                  /\ inflight' = inflight \cup {call}
                  /\ call.pc = "fetch"
                  /\ IsTrimOf(call.body.query, query) ]_vars

\* a request is in flight whose body differs from the text as typed
C5_Witness ==
    /\ IsSubmit(event)
    /\ \E call \in inflight :
          /\ call.body.query # query
          /\ call.body.query = <<"a">>
          /\ Len(query) = 3

\* C6: when the request resolves with a non-success status c, the error is
\* exactly "HTTP error! status: c", response stays null, loading is false and
\* the body is not decoded (the handler does not go on to res.json()).
C6_HttpFailureToError ==
    [][ IsHttpFailure(event') =>
            /\ error' = Some(StatusText(event'.status))
            /\ response' = None
            /\ loading' = FALSE
            /\ inflight' = {} ]_vars

\* a request was answered 404 and the state is that error
C6_Witness ==
    /\ event.type = "response"
    /\ event.status = 404
    /\ error = Some("HTTP error! status: 404")
    /\ response = None
    /\ ~loading

\* C7: when the body of a successful response decodes to an object
\* {summary, relevant_docs}, response is exactly that object (same summary,
\* same documents in the same order), error is null and loading is false.
C7_SuccessCarriesBody ==
    [][ (event'.type = "json" /\ event'.data # None) =>
            /\ response' = event'.data
            /\ error' = None
            /\ loading' = FALSE ]_vars

\* a body with two documents was decoded and is the response
C7_Witness ==
    /\ event.type = "json"
    /\ event.data # None
    /\ response = event.data
    /\ Len(response[1].relevant_docs) = 2
    /\ ~loading

\* C8: loading goes from true to false exactly in the step that resolves the
\* submission (rejected fetch, non-success status, decoded body, undecodable
\* body), it stays true while the body of a successful response is awaited,
\* and an undecodable body leaves an error and no response.
C8_LoadingClearedAtResolution ==
    [][ /\ (loading /\ ~loading') <=> (IsNetwork(event') /\ IsResolution(event'))
        /\ (IsNetwork(event') /\ IsResolution(event')) =>
               (\A call \in inflight' : call.id # event'.id)
        /\ (IsNetwork(event') /\ ~IsResolution(event')) => (loading /\ loading')
        /\ event'.type = "jsonerror" =>
               (error' # None /\ response' = None /\ ~loading') ]_vars

\* a body failed to decode and the state is an error, not loading
C8_Witness ==
    /\ event.type = "jsonerror"
    /\ error # None
    /\ response = None
    /\ ~loading
    /\ inflight = {}

\* C9 (as claimed): in every state with an error the submit control is
\* enabled, and a submit made there, whatever the query, leaves no response
\* and no error other than the one it produced itself.
C9_SubmitAlwaysResets ==
    [][ /\ (error # None => ~Disabled)
        /\ (error # None /\ IsSubmit(event')) =>
               /\ response' = None
               /\ error' \in {None, Some("Please enter a search query")} ]_vars

\* C10: while a request is unresolved, every step that is not a step of the
\* network leaves loading true, response null, error null, the query and the
\* requests as they are: no user action does anything.
C10_LoadingUntilResolved ==
    [][ (loading /\ ~IsNetwork(event')) =>
            /\ loading' /\ response' = None /\ error' = None
            /\ UNCHANGED <<query, response, error, inflight, issued>> ]_vars

\* a request is issued and nothing has answered it
C10_Witness ==
    /\ loading
    /\ response = None
    /\ error = None
    /\ \E call \in inflight : call.pc = "fetch"
    /\ query # <<>>

====
